---- MODULE Spec2Model ----
(***************************************************************************)
(* Model of the live-state synchronisation and allocation-edit core of     *)
(* the operator console: the Performance view (periodic pull, edit modal,  *)
(* saveOrder) and the Strategies view (periodic pull plus socket push).    *)
(*                                                                         *)
(* JavaScript values that can be a number, the empty string, NaN or        *)
(* undefined are records [typ, val]; val is the value's numeric coercion.  *)
(* Percentages are exact fractions [num, den] in lowest terms.             *)
(* Time is counted in units of 5000 ms.                                    *)
(***************************************************************************)
EXTENDS Integers, Sequences, FiniteSets

\* ------------------------------------------------------------- bounds ---
MaxInFlight == 1          \* pull requests outstanding at once
MaxCommitsInFlight == 1   \* saveOrder invocations awaiting a write at once
MaxOpens == 2             \* edit sessions opened in one component lifetime
MaxEdits == 2             \* capital and order edits in one component lifetime
MaxCalls == 1             \* operator commands awaiting their fetch at once

\* ---------------------------------------------------------- constants ---
GraceDelay == 1           \* setTimeout(..., 5000), in 5000 ms units

\* ---------------------------------------------------------- JS values ---
Num(v) == [typ |-> "number", val |-> v]
EmptyString == [typ |-> "string", val |-> 0]
NaN == [typ |-> "NaN", val |-> 0]
Undefined == [typ |-> "undefined", val |-> 0]

\* Number(x) as applied by the arithmetic operators: '' coerces to 0
ToNumber(c) == c.val

\* x || 0 for a capital that is a number, '' or undefined
OrZero(c) == IF c.typ = "number" /\ c.val # 0 THEN c.val ELSE 0

\* parseFloat on the raw strings the operator can type
ParseFloat(raw) ==
    CASE raw = "3000" -> Num(3000)
      [] raw = "0" -> Num(0)
      [] raw = "-500" -> Num(0 - 500)
      [] OTHER -> NaN

RawInputs == {"", "0", "-500", "3000", "abc"}

\* ---------------------------------------------------------- fractions ---
Abs(n) == IF n < 0 THEN 0 - n ELSE n

RECURSIVE GCD(_, _)
GCD(a, b) == IF b = 0 THEN a ELSE GCD(b, a % b)

\* n / d in lowest terms with a positive denominator (d # 0)
Ratio(n, d) ==
    LET g == GCD(Abs(n), Abs(d))
        s == IF d < 0 THEN 0 - 1 ELSE 1
    IN  [num |-> (s * n) \div g, den |-> (s * d) \div g]

AddRatio(a, b) == Ratio(a.num * b.den + b.num * a.den, a.den * b.den)

\* (capital / (denominator || 1)) * 100
PctOf(capital, denominator) ==
    Ratio(ToNumber(capital) * 100, IF denominator # 0 THEN denominator ELSE 1)

\* ------------------------------------------------------ list helpers ---
\* Array.prototype.indexOf
IndexOf(seq, x) ==
    IF \E i \in 1..Len(seq) : seq[i] = x
    THEN (CHOOSE i \in 1..Len(seq) :
              seq[i] = x /\ \A j \in 1..(i - 1) : seq[j] # x) - 1
    ELSE 0 - 1

HasName(list, name) == \E i \in 1..Len(list) : list[i].name = name

\* Array.prototype.find(os => os.name === name), for a name that occurs
FindByName(list, name) ==
    list[CHOOSE i \in 1..Len(list) :
             list[i].name = name /\ \A j \in 1..(i - 1) : list[j].name # name]

NamesOf(list) == [i \in 1..Len(list) |-> list[i].name]

Front(s) == SubSeq(s, 1, Len(s) - 1)
Last(s) == s[Len(s)]

\* comparator of the priority sort (modal effect and displayedAllocations)
ComparePriority(a, b, order) ==
    LET indexA == IndexOf(order, a.name)
        indexB == IndexOf(order, b.name)
    IN  IF indexA = 0 - 1 /\ indexB = 0 - 1 THEN 0
        ELSE IF indexA = 0 - 1 THEN 1
        ELSE IF indexB = 0 - 1 THEN 0 - 1
        ELSE indexA - indexB

\* Array.prototype.sort is stable: insertion after the last element that
\* does not compare greater
RECURSIVE InsertByPriority(_, _, _)
InsertByPriority(s, x, order) ==
    IF s = <<>> THEN <<x>>
    ELSE IF ComparePriority(Last(s), x, order) <= 0 THEN Append(s, x)
    ELSE Append(InsertByPriority(Front(s), x, order), Last(s))

RECURSIVE SortByPriority(_, _)
SortByPriority(list, order) ==
    IF list = <<>> THEN <<>>
    ELSE InsertByPriority(SortByPriority(Front(list), order), Last(list), order)

\* the list the modal effect hands to setModalStrategies
ModalSorted(list, order) ==
    IF Len(order) > 0 THEN SortByPriority(list, order) ELSE list

\* (a, b) => b.pct - a.pct, as a sign
ComparePct(a, b) ==
    LET diff == b.pct.num * a.pct.den - a.pct.num * b.pct.den
    IN  IF diff < 0 THEN 0 - 1 ELSE IF diff > 0 THEN 1 ELSE 0

RECURSIVE InsertByPct(_, _)
InsertByPct(s, x) ==
    IF s = <<>> THEN <<x>>
    ELSE IF ComparePct(Last(s), x) <= 0 THEN Append(s, x)
    ELSE Append(InsertByPct(Front(s), x), Last(s))

RECURSIVE SortByPct(_)
SortByPct(list) ==
    IF list = <<>> THEN <<>>
    ELSE InsertByPct(SortByPct(Front(list)), Last(list))

\* sorted.slice(0, 5)
TopCount == 5

\* Array.prototype.slice(0, n)
Slice(list, n) == SubSeq(list, 1, IF Len(list) < n THEN Len(list) ELSE n)

\* a display that ranks by percentage whatever the order
DisplayedByPct(list, order) == Slice(SortByPct(list), TopCount)

\* displayedAllocations
DisplayedAllocations(list, order) ==
    Slice(IF Len(order) > 0 THEN SortByPriority(list, order)
          ELSE SortByPct(list), TopCount)

\* ------------------------------------------------- backend documents ---
Names == {"X", "Y"}

\* one strategy record of a /api/stats response
Strat(n, c) == [name |-> n, capital |-> c]

\* /api/stats response bodies: total_capital and strategies may be absent
DocBalanced ==
    [total_capital |-> Num(2000), hasStrategies |-> TRUE,
     strategies |-> <<Strat("X", 1000), Strat("Y", 1000)>>]

DocZeroTotal ==
    [total_capital |-> Num(0), hasStrategies |-> TRUE,
     strategies |-> <<Strat("X", 1000), Strat("Y", 1000)>>]

DocNoStrategies ==
    [total_capital |-> Num(2000), hasStrategies |-> FALSE, strategies |-> <<>>]

DocNoTotal ==
    [total_capital |-> Undefined, hasStrategies |-> TRUE,
     strategies |-> <<Strat("X", 3000), Strat("Y", 1000)>>]

StatsDocs == { DocBalanced, DocZeroTotal, DocNoStrategies, DocNoTotal }

\* orders localStorage may hold when the component mounts
SavedOrders == { <<>>, <<"Y">> }

\* ------------------------------------------------------------- state ---
VARIABLES
    tradingMode,      \* prop of the mounted view: "PAPER" or "REAL"
    showEditModal,    \* Performance: modal open
    isSaving,         \* Performance: commit in progress or in grace
    allStrategies,    \* Performance: canonical strategies [name, capital, pct]
    totalCapital,     \* Performance: canonical total capital
    liveEquity,       \* Performance: canonical equity
    modalStrategies,  \* Performance: working copy of the edit modal
    strategyOrder,    \* Performance: PriorityOrder in memory
    localStorage,     \* value stored under algo_strategy_priority
    pullsInFlight,    \* fetchMetrics calls awaiting their response
    commits,          \* saveOrder invocations suspended at an await
    timers,           \* remaining delay of each pending setTimeout
    sinceCommit,      \* time since the last saveOrder completed (saturating)
    opens,            \* edit sessions opened so far
    edits,            \* capital and order edits made so far
    ev                \* what the last step did (and the saveOrder closure it completed)

\* state of the Strategies view
VARIABLES
    openIds           \* Performance: names in allStrategies at the last open

VARIABLES strategies, totalStats, isLiveBotActive, fetchesInFlight,
          lastAccepted, sev,
          calls,    \* Strategies: operator commands awaiting their fetch
          cev       \* Strategies: what the last step did about commands

perfVars == << showEditModal, isSaving, allStrategies, totalCapital,
               liveEquity, modalStrategies, strategyOrder, localStorage,
               pullsInFlight, commits, timers, sinceCommit, opens, edits, ev,
               openIds >>

stratVars == << strategies, totalStats, isLiveBotActive, fetchesInFlight,
                lastAccepted, sev, calls, cev >>

vars == << strategies, totalStats, isLiveBotActive, fetchesInFlight,
           lastAccepted, sev, calls, cev, tradingMode, showEditModal, isSaving, allStrategies, totalCapital,
           liveEquity, modalStrategies, strategyOrder, localStorage,
           pullsInFlight, commits, timers, sinceCommit, opens, edits, ev,
               openIds >>

NoCommit ==
    [upd |-> <<>>, orig |-> <<>>, total |-> 0, log |-> <<>>, opened |-> <<>>]

Event(kind, issued, applied) ==
    [kind |-> kind, issued |-> issued, applied |-> applied, commit |-> NoCommit]

\* ------------------------------------------------- Performance: sync ---
\* a guard that tests the modal only
SyncPausedModalOnly(modal, saving) == modal

\* fetchMetrics' guard: if (showEditModal || isSaving) return
SyncPaused(modal, saving) == modal \/ saving

\* an effect whose dependency list lacks showEditModal
EffectPullsOnSavingOnly(modal, saving) ==
    saving # isSaving /\ ~SyncPaused(modal, saving)

\* the sync effect re-runs when a dependency changed; its fetchMetrics()
\* call sends a request unless paused
EffectPulls(modal, saving) ==
    (modal # showEditModal \/ saving # isSaving) /\ ~SyncPaused(modal, saving)

\* a request beyond MaxInFlight is one whose response never arrives
IssuePull(n) == IF n < MaxInFlight THEN n + 1 ELSE n

\* statsData.strategies.map(...) of fetchMetrics
MapStats(doc) ==
    [i \in 1..Len(doc.strategies) |->
        [name |-> doc.strategies[i].name,
         capital |-> Num(doc.strategies[i].capital),
         pct |-> PctOf(Num(doc.strategies[i].capital),
                       OrZero(doc.total_capital))]]

PerfInit ==
    /\ tradingMode \in {"PAPER", "REAL"}
    /\ showEditModal = FALSE
    /\ isSaving = FALSE
    /\ allStrategies = <<>>
    /\ totalCapital = 0
    /\ liveEquity = 0
    /\ modalStrategies = <<>>
    /\ localStorage \in SavedOrders
    /\ strategyOrder = localStorage
    /\ pullsInFlight = 1
    /\ commits = <<>>
    /\ timers = <<>>
    /\ sinceCommit = GraceDelay
    /\ opens = 0
    /\ edits = 0
    /\ ev = Event("mount", TRUE, FALSE)
    /\ openIds = <<>>

\* setInterval(fetchMetrics, 30000) fires
IntervalTick ==
    /\ IF SyncPaused(showEditModal, isSaving)
       THEN /\ UNCHANGED pullsInFlight
            /\ ev' = Event("interval", FALSE, FALSE)
       ELSE /\ pullsInFlight < MaxInFlight
            /\ pullsInFlight' = pullsInFlight + 1
            /\ ev' = Event("interval", TRUE, FALSE)
    /\ UNCHANGED << tradingMode, showEditModal, isSaving, allStrategies,
                    totalCapital, liveEquity, modalStrategies, strategyOrder,
                    localStorage, commits, timers, sinceCommit, opens, edits >>
    /\ UNCHANGED openIds
    /\ UNCHANGED stratVars

\* a catch that clears the strategies it could not refresh
PullFailsClearing ==
    /\ pullsInFlight > 0
    /\ pullsInFlight' = pullsInFlight - 1
    /\ allStrategies' = <<>>
    /\ ev' = Event("failed", FALSE, FALSE)
    /\ UNCHANGED << tradingMode, showEditModal, isSaving, totalCapital,
                    liveEquity, modalStrategies, strategyOrder, localStorage,
                    commits, timers, sinceCommit, opens, edits >>
    /\ UNCHANGED openIds
    /\ UNCHANGED stratVars

\* the awaited fetch of fetchMetrics rejects, or its body does not parse
PullFails ==
    /\ pullsInFlight > 0
    /\ pullsInFlight' = pullsInFlight - 1
    /\ ev' = Event("failed", FALSE, FALSE)
    /\ UNCHANGED << tradingMode, showEditModal, isSaving, allStrategies,
                    totalCapital, liveEquity, modalStrategies, strategyOrder,
                    localStorage, commits, timers, sinceCommit, opens, edits >>
    /\ UNCHANGED openIds
    /\ UNCHANGED stratVars

\* a response handler that fills canonical strategies only while they are
\* empty
PullResponseFirstLoadOnly(doc) ==
    /\ pullsInFlight > 0
    /\ pullsInFlight' = pullsInFlight - 1
    /\ IF doc.total_capital.typ # "undefined" /\ allStrategies = <<>>
       THEN /\ liveEquity' = doc.total_capital.val
            /\ totalCapital' = doc.total_capital.val
            /\ IF doc.hasStrategies
               THEN /\ allStrategies' = MapStats(doc)
                    /\ modalStrategies' =
                          IF showEditModal
                          THEN ModalSorted(MapStats(doc), strategyOrder)
                          ELSE modalStrategies
               ELSE UNCHANGED << allStrategies, modalStrategies >>
            /\ ev' = Event("pull", FALSE, TRUE)
       ELSE /\ UNCHANGED << liveEquity, totalCapital, allStrategies,
                            modalStrategies >>
            /\ ev' = Event("pull", FALSE, FALSE)
    /\ UNCHANGED << tradingMode, showEditModal, isSaving, strategyOrder,
                    localStorage, commits, timers, sinceCommit, opens, edits >>
    /\ UNCHANGED openIds
    /\ UNCHANGED stratVars

\* the awaited fetch of fetchMetrics resolves with statsData = doc
PullResponse(doc) ==
    /\ pullsInFlight > 0
    /\ pullsInFlight' = pullsInFlight - 1
    /\ IF doc.total_capital.typ # "undefined"
       THEN /\ liveEquity' = doc.total_capital.val
            /\ totalCapital' = doc.total_capital.val
            /\ IF doc.hasStrategies
               THEN /\ allStrategies' = MapStats(doc)
                    /\ modalStrategies' =
                          IF showEditModal
                          THEN ModalSorted(MapStats(doc), strategyOrder)
                          ELSE modalStrategies
               ELSE UNCHANGED << allStrategies, modalStrategies >>
            /\ ev' = Event("pull", FALSE, TRUE)
       ELSE /\ UNCHANGED << liveEquity, totalCapital, allStrategies,
                            modalStrategies >>
            /\ ev' = Event("pull", FALSE, FALSE)
    /\ UNCHANGED << tradingMode, showEditModal, isSaving, strategyOrder,
                    localStorage, commits, timers, sinceCommit, opens, edits >>
    /\ UNCHANGED openIds
    /\ UNCHANGED stratVars

\* ------------------------------------------ Performance: edit session ---
\* "Edit Rankings": setShowEditModal(true); the modal effect fills the
\* working copy
OpenModal ==
    /\ ~showEditModal
    /\ opens < MaxOpens
    /\ opens' = opens + 1
    /\ showEditModal' = TRUE
    /\ modalStrategies' = ModalSorted(allStrategies, strategyOrder)
    /\ pullsInFlight' = IF EffectPulls(TRUE, isSaving)
                        THEN IssuePull(pullsInFlight) ELSE pullsInFlight
    /\ ev' = Event("open", EffectPulls(TRUE, isSaving), FALSE)
    /\ UNCHANGED << tradingMode, isSaving, allStrategies, totalCapital,
                    liveEquity, strategyOrder, localStorage, commits, timers,
                    sinceCommit, edits >>
    /\ openIds' = NamesOf(allStrategies)
    /\ UNCHANGED stratVars

\* a close handler that also keeps the working list's order
CancelKeepingOrder ==
    /\ showEditModal
    /\ showEditModal' = FALSE
    /\ strategyOrder' = NamesOf(modalStrategies)
    /\ localStorage' = NamesOf(modalStrategies)
    /\ pullsInFlight' = IF EffectPulls(FALSE, isSaving)
                        THEN IssuePull(pullsInFlight) ELSE pullsInFlight
    /\ ev' = Event("cancel", EffectPulls(FALSE, isSaving), FALSE)
    /\ UNCHANGED << tradingMode, isSaving, allStrategies, totalCapital,
                    liveEquity, modalStrategies, commits, timers,
                    sinceCommit, opens, edits >>
    /\ UNCHANGED openIds
    /\ UNCHANGED stratVars

\* the X button and the Cancel button: setShowEditModal(false)
Cancel ==
    /\ showEditModal
    /\ showEditModal' = FALSE
    /\ pullsInFlight' = IF EffectPulls(FALSE, isSaving)
                        THEN IssuePull(pullsInFlight) ELSE pullsInFlight
    /\ ev' = Event("cancel", EffectPulls(FALSE, isSaving), FALSE)
    /\ UNCHANGED << tradingMode, isSaving, allStrategies, totalCapital,
                    liveEquity, modalStrategies, strategyOrder, localStorage,
                    commits, timers, sinceCommit, opens, edits >>
    /\ UNCHANGED openIds
    /\ UNCHANGED stratVars

\* the value the capital input's onChange stores for rawVal, or NaN when it
\* stores nothing
ChangedCapital(rawVal) == IF rawVal = "" THEN EmptyString ELSE ParseFloat(rawVal)

\* onChange of the capital input of row `name`
SetCapital(name, rawVal) ==
    /\ showEditModal
    /\ edits < MaxEdits
    /\ edits' = edits + 1
    /\ HasName(modalStrategies, name)
    /\ modalStrategies' =
          IF ChangedCapital(rawVal).typ # "NaN"
          THEN [i \in 1..Len(modalStrategies) |->
                   IF modalStrategies[i].name = name
                   THEN [modalStrategies[i] EXCEPT
                            !.capital = ChangedCapital(rawVal)]
                   ELSE modalStrategies[i]]
          ELSE modalStrategies
    /\ ev' = Event("setCapital", FALSE, FALSE)
    /\ UNCHANGED << tradingMode, showEditModal, isSaving, allStrategies,
                    totalCapital, liveEquity, strategyOrder, localStorage,
                    pullsInFlight, commits, timers, sinceCommit, opens >>
    /\ UNCHANGED openIds
    /\ UNCHANGED stratVars

\* the orders Reorder.Group can report: permutations of the shown names
DragOrders(list) ==
    { p \in [1..Len(list) -> 1..Len(list)] :
        \A i, j \in 1..Len(list) : p[i] = p[j] => i = j }

\* a reorder that rebuilds each entry with a cleared capital
ReorderedClearingCapital(list, newOrder) ==
    [i \in 1..Len(newOrder) |->
        [FindByName(list, newOrder[i]) EXCEPT !.capital = EmptyString]]

\* onReorder: newOrder.map(name => modalStrategies.find(s => s.name === name))
Reordered(list, newOrder) ==
    [i \in 1..Len(newOrder) |-> FindByName(list, newOrder[i])]

Reorder(p) ==
    /\ showEditModal
    /\ edits < MaxEdits
    /\ edits' = edits + 1
    /\ p \in DragOrders(modalStrategies)
    /\ \E i \in 1..Len(modalStrategies) : p[i] # i
    /\ modalStrategies' =
          Reordered(modalStrategies,
                    [i \in 1..Len(modalStrategies) |->
                        modalStrategies[p[i]].name])
    /\ ev' = Event("reorder", FALSE, FALSE)
    /\ UNCHANGED << tradingMode, showEditModal, isSaving, allStrategies,
                    totalCapital, liveEquity, strategyOrder, localStorage,
                    pullsInFlight, commits, timers, sinceCommit, opens >>
    /\ UNCHANGED openIds
    /\ UNCHANGED stratVars

\* ------------------------------------------------ Performance: commit ---
\* typeof s.capital === 'number' && !isNaN(s.capital) && s.capital > 0
IsValidCapital(c) == c.typ = "number" /\ c.val > 0

\* a write condition without the validity test
NeedsWriteUnvalidated(s, orig) ==
    /\ s.capital.typ = "number"
    /\ HasName(orig, s.name)
    /\ FindByName(orig, s.name).capital # s.capital

\* isValid && original && original.capital !== s.capital
NeedsWrite(s, orig) ==
    /\ IsValidCapital(s.capital)
    /\ HasName(orig, s.name)
    /\ FindByName(orig, s.name).capital # s.capital

\* index of the first entry at or after `from` the loop posts, 0 when none
NextWrite(upd, orig, from) ==
    IF \E j \in from..Len(upd) : NeedsWrite(upd[j], orig)
    THEN CHOOSE j \in from..Len(upd) :
             /\ NeedsWrite(upd[j], orig)
             /\ \A k \in from..(j - 1) : ~NeedsWrite(upd[k], orig)
    ELSE 0

\* the proposed capital taken without validation
UnvalidatedCapital(s, orig) == ToNumber(s.capital)

\* capital of one entry of validStrategies
ValidCapital(s, orig) ==
    IF IsValidCapital(s.capital) THEN s.capital.val
    ELSE IF HasName(orig, s.name) THEN OrZero(FindByName(orig, s.name).capital)
    ELSE 0

\* validStrategies.reduce((sum, s) => sum + s.capital, 0)
RECURSIVE SumOfCapitals(_, _)
SumOfCapitals(upd, orig) ==
    IF upd = <<>> THEN 0
    ELSE SumOfCapitals(Front(upd), orig) + ValidCapital(Last(upd), orig)

\* the Paper-mode rule applied in every mode
DenominatorSumOnly(mode, total, sum) == sum

\* the Real-mode rule applied in every mode
DenominatorIgnoringMode(mode, total, sum) ==
    IF total # 0 THEN total ELSE sum

\* isReal ? (totalCapital || sumOfCapitals) : sumOfCapitals
Denominator(mode, total, sum) ==
    IF mode = "REAL" THEN (IF total # 0 THEN total ELSE sum) ELSE sum

\* capital kept by one entry of finalMapped: { ...s, pct }
MergedCapital(s, orig) == s.capital

\* updatedStrategies.map(s => ({ ...s, pct: ... }))
FinalMapped(upd, orig, denominator) ==
    [i \in 1..Len(upd) |->
        [name |-> upd[i].name,
         capital |-> MergedCapital(upd[i], orig),
         pct |-> PctOf(upd[i].capital, denominator)]]

PendingWrite(s) == [name |-> s.name, capital |-> s.capital.val, status |-> "pending"]

\* a release that is never scheduled
NoRelease(pending) == pending

\* setTimeout(() => setIsSaving(false), 5000): one more pending release
ScheduleRelease(pending) == Append(pending, GraceDelay)

\* saveOrder from the recalculation to the setTimeout, for the invocation
\* with closure c; saving is isSaving after the step
FinishSave(c, saving) ==
    LET sum == SumOfCapitals(c.upd, c.orig)
        denominator == Denominator(tradingMode, c.total, sum)
    IN  /\ totalCapital' = IF tradingMode = "REAL" THEN totalCapital ELSE sum
        /\ allStrategies' = FinalMapped(c.upd, c.orig, denominator)
        /\ showEditModal' = FALSE
        /\ isSaving' = saving
        /\ timers' = ScheduleRelease(timers)
        /\ sinceCommit' = 0
        /\ pullsInFlight' = IF EffectPulls(FALSE, saving)
                            THEN IssuePull(pullsInFlight) ELSE pullsInFlight
        /\ ev' = [Event("saved", EffectPulls(FALSE, saving), FALSE) EXCEPT
                      !.commit = [upd |-> c.upd, orig |-> c.orig,
                                  total |-> c.total, log |-> c.log,
                                  opened |-> c.opened]]
        /\ UNCHANGED << tradingMode, liveEquity, modalStrategies, opens, edits >>

\* an order that names the entries with a valid capital only
OrderOfValid(list) ==
    NamesOf(SelectSeq(list, LAMBDA s : IsValidCapital(s.capital)))

\* the Save button's first argument: modalStrategies.map(s => s.name)
NewOrder(list) == NamesOf(list)

\* "Save Allocation & Priority": saveOrder(names, modalStrategies) up to its
\* first await, or to its end when no entry is posted
Save ==
    /\ showEditModal
    /\ strategyOrder' = NewOrder(modalStrategies)
    /\ localStorage' = NewOrder(modalStrategies)
    /\ LET c == [upd |-> modalStrategies, orig |-> allStrategies,
                 total |-> totalCapital, i |-> 0, log |-> <<>>,
                 opened |-> openIds]
           j == NextWrite(c.upd, c.orig, 1)
       IN  IF j = 0
           THEN /\ FinishSave(c, TRUE)
                /\ UNCHANGED commits
           ELSE /\ Len(commits) < MaxCommitsInFlight
                /\ commits' = Append(commits,
                       [c EXCEPT !.i = j, !.log = <<PendingWrite(c.upd[j])>>])
                /\ isSaving' = TRUE
                /\ modalStrategies' =
                       ModalSorted(allStrategies, NewOrder(modalStrategies))
                /\ ev' = Event("save", FALSE, FALSE)
                /\ UNCHANGED << tradingMode, showEditModal, allStrategies,
                                totalCapital, liveEquity, pullsInFlight,
                                timers, sinceCommit, opens, edits >>
    /\ UNCHANGED openIds
    /\ UNCHANGED stratVars

\* a try around the whole loop: a rejected write ends the loop
LoopEndsOnFailure(ok, next) == IF ok THEN next ELSE 0

\* try { await fetch(...) } catch (e) { console.error(...) } inside the
\* loop: the loop goes on to the next entry whether the write settled or not
LoopAfterWrite(ok, next) == next

RemoveAt(s, k) == SubSeq(s, 1, k - 1) \o SubSeq(s, k + 1, Len(s))

\* the awaited POST of invocation k settles (ok) or rejects (caught and
\* logged); the loop goes on to the next posted entry or saveOrder finishes
WriteSettles(k, ok) ==
    /\ k \in 1..Len(commits)
    /\ LET c == commits[k]
           log == [c.log EXCEPT ![Len(c.log)].status =
                      IF ok THEN "ok" ELSE "failed"]
           j == LoopAfterWrite(ok, NextWrite(c.upd, c.orig, c.i + 1))
       IN  IF j = 0
           THEN /\ FinishSave([c EXCEPT !.log = log], isSaving)
                /\ commits' = RemoveAt(commits, k)
           ELSE /\ commits' = [commits EXCEPT ![k] =
                       [c EXCEPT !.i = j,
                                 !.log = Append(log, PendingWrite(c.upd[j]))]]
                /\ ev' = Event("written", FALSE, FALSE)
                /\ UNCHANGED << tradingMode, showEditModal, isSaving,
                                allStrategies, totalCapital, liveEquity,
                                modalStrategies, pullsInFlight, timers,
                                sinceCommit, opens, edits >>
    /\ UNCHANGED << strategyOrder, localStorage >>
    /\ UNCHANGED openIds
    /\ UNCHANGED stratVars

\* one time unit passes; a due timer runs before time moves on
Tick ==
    /\ \A i \in 1..Len(timers) : timers[i] > 0
    /\ timers # <<>> \/ sinceCommit < GraceDelay
    /\ timers' = [i \in 1..Len(timers) |-> timers[i] - 1]
    /\ sinceCommit' = IF sinceCommit < GraceDelay
                      THEN sinceCommit + 1 ELSE sinceCommit
    /\ ev' = Event("tick", FALSE, FALSE)
    /\ UNCHANGED << tradingMode, showEditModal, isSaving, allStrategies,
                    totalCapital, liveEquity, modalStrategies, strategyOrder,
                    localStorage, pullsInFlight, commits, opens, edits >>
    /\ UNCHANGED openIds
    /\ UNCHANGED stratVars

\* setTimeout(() => setIsSaving(false), 5000) runs
TimerFires ==
    /\ timers # <<>>
    /\ Head(timers) = 0
    /\ timers' = Tail(timers)
    /\ isSaving' = FALSE
    /\ pullsInFlight' = IF EffectPulls(showEditModal, FALSE)
                        THEN IssuePull(pullsInFlight) ELSE pullsInFlight
    /\ ev' = Event("timer", EffectPulls(showEditModal, FALSE), FALSE)
    /\ UNCHANGED << tradingMode, showEditModal, allStrategies, totalCapital,
                    liveEquity, modalStrategies, strategyOrder, localStorage,
                    commits, sinceCommit, opens, edits >>
    /\ UNCHANGED openIds
    /\ UNCHANGED stratVars

\* ------------------------------------------------- Strategies view ---
\* a strategy entry of a stats document
RawStrat(n, pnl) == [name |-> n, pnl |-> pnl]

\* stats documents: the body of /api/stats, a stats_update payload, or one
\* mode's sub-payload of a DUAL payload; present is FALSE for undefined
AbsentDoc ==
    [present |-> FALSE, hasStrategies |-> FALSE, strategies |-> <<>>,
     total_capital |-> Undefined, running |-> FALSE]

EmptyDoc == [AbsentDoc EXCEPT !.present = TRUE]

PaperDoc ==
    [present |-> TRUE, hasStrategies |-> TRUE,
     strategies |-> <<RawStrat("X", Num(10))>>,
     total_capital |-> Num(1000), running |-> TRUE]

RealDoc ==
    [present |-> TRUE, hasStrategies |-> TRUE,
     strategies |-> <<RawStrat("X", Undefined)>>,
     total_capital |-> Num(2000), running |-> FALSE]

TopDoc ==
    [present |-> TRUE, hasStrategies |-> TRUE,
     strategies |-> <<RawStrat("Y", Num(0))>>,
     total_capital |-> Undefined, running |-> TRUE]

\* a stats_update event that carries no object: rawUpdate is undefined or
\* null
NullPush ==
    [broadcast_mode |-> "NONE", top |-> AbsentDoc,
     PAPER |-> AbsentDoc, REAL |-> AbsentDoc]

\* stats_update payloads: the payload's own fields (top) and the sub-payloads
Pushes ==
    [broadcast_mode : {"DUAL", "NONE"},
     top : {TopDoc, EmptyDoc},
     PAPER : {AbsentDoc, EmptyDoc, PaperDoc},
     REAL : {AbsentDoc, EmptyDoc, RealDoc}]
    \cup {NullPush}

NoPush ==
    [broadcast_mode |-> "NONE", top |-> AbsentDoc,
     PAPER |-> AbsentDoc, REAL |-> AbsentDoc]

\* /api/stats response bodies the Strategies view may receive
StatsBodies == {PaperDoc, RealDoc, EmptyDoc}

\* String.prototype.toUpperCase
ToUpperCase(str) ==
    CASE str = "paper" -> "PAPER"
      [] str = "real" -> "REAL"
      [] OTHER -> str

\* rawUpdate[key]
Member(rawUpdate, key) ==
    CASE key = "PAPER" -> rawUpdate.PAPER
      [] key = "REAL" -> rawUpdate.REAL
      [] OTHER -> AbsentDoc

\* a selection that always takes the PAPER sub-payload
SelectedPaperOnly(rawUpdate, mode) ==
    IF rawUpdate.broadcast_mode = "DUAL"
    THEN Member(rawUpdate, "PAPER")
    ELSE rawUpdate.top

\* onUpdate: data = rawUpdate, or for a DUAL payload
\* rawUpdate[tradingMode.toUpperCase()] || rawUpdate['PAPER']
SelectedData(rawUpdate, mode) ==
    IF rawUpdate.broadcast_mode = "DUAL"
    THEN IF Member(rawUpdate, ToUpperCase(mode)).present
         THEN Member(rawUpdate, ToUpperCase(mode))
         ELSE Member(rawUpdate, "PAPER")
    ELSE rawUpdate.top

\* data && data.strategies
WellFormed(data) == data.present /\ data.hasStrategies

\* mapStrategies: name and profit of each entry
MapStrategies(data) ==
    IF ~WellFormed(data) THEN <<>>
    ELSE [i \in 1..Len(data.strategies) |->
             [name |-> data.strategies[i].name,
              profit |-> OrZero(data.strategies[i].pnl)]]

\* the state the setters of fetchData and onUpdate install for data
Normalized(data) ==
    [strategies |-> MapStrategies(data),
     totalStats |-> [aum |-> OrZero(data.total_capital)],
     isLiveBotActive |-> data.running]

NoSnapshot ==
    [strategies |-> <<>>, totalStats |-> [aum |-> 0 - 1],
     isLiveBotActive |-> FALSE]

StratEvent(kind, rawUpdate, data) ==
    [kind |-> kind, payload |-> rawUpdate, data |-> data,
     applied |-> WellFormed(data),
     same |-> Normalized(data) = lastAccepted]

\* an update that installs the strategies and leaves the totals
AcceptStrategiesOnly(data) ==
    IF WellFormed(data)
    THEN /\ strategies' = Normalized(data).strategies
         /\ lastAccepted' = Normalized(data)
         /\ UNCHANGED << totalStats, isLiveBotActive >>
    ELSE UNCHANGED << strategies, totalStats, isLiveBotActive, lastAccepted >>

\* setStrategies, setTotalStats, setIsLiveBotActive when data is well formed
Accept(data) ==
    IF WellFormed(data)
    THEN /\ strategies' = Normalized(data).strategies
         /\ totalStats' = Normalized(data).totalStats
         /\ isLiveBotActive' = Normalized(data).isLiveBotActive
         /\ lastAccepted' = Normalized(data)
    ELSE UNCHANGED << strategies, totalStats, isLiveBotActive, lastAccepted >>

\* an argument the caller did not pass: undefined
NoArgument == [passed |-> FALSE, val |-> ""]

\* an argument the caller passed
Argument(v) == [passed |-> TRUE, val |-> v]

\* JSON.stringify({ strategy: name }): a property whose value is undefined
\* is left out
ToggleBody(name) ==
    IF name.passed
    THEN [hasStrategy |-> TRUE, strategy |-> name.val]
    ELSE [hasStrategy |-> FALSE, strategy |-> ""]

\* a request without a body
NoBody == [hasStrategy |-> FALSE, strategy |-> ""]

\* what a step did about operator commands: the command or settlement, the
\* card the operator clicked, and the fetchData calls the step made
CommandEvent(kind, card, pulls) ==
    [kind |-> kind, card |-> card, pulls |-> pulls]

NoCommand == CommandEvent("none", "", 0)

\* a step of the Strategies view that is no operator command
NoCommandStep ==
    /\ cev' = NoCommand
    /\ UNCHANGED calls

\* the Strategies view is not mounted
StrategiesUnmounted ==
    /\ strategies = <<>>
    /\ totalStats = [aum |-> 0]
    /\ isLiveBotActive = TRUE
    /\ fetchesInFlight = 0
    /\ lastAccepted = NoSnapshot
    /\ sev = [kind |-> "none", payload |-> NoPush, data |-> AbsentDoc,
              applied |-> FALSE, same |-> FALSE]
    /\ calls = <<>>
    /\ cev = NoCommand

\* the Performance view is not mounted
PerformanceUnmounted ==
    /\ showEditModal = FALSE
    /\ isSaving = FALSE
    /\ allStrategies = <<>>
    /\ totalCapital = 0
    /\ liveEquity = 0
    /\ modalStrategies = <<>>
    /\ strategyOrder = <<>>
    /\ localStorage = <<>>
    /\ pullsInFlight = 0
    /\ commits = <<>>
    /\ timers = <<>>
    /\ sinceCommit = GraceDelay
    /\ opens = 0
    /\ edits = 0
    /\ ev = Event("none", FALSE, FALSE)
    /\ openIds = <<>>

\* Strategies mounted: useState defaults, and the effect has called fetchData
StratInit ==
    /\ tradingMode \in {"PAPER", "REAL"}
    /\ strategies = <<>>
    /\ totalStats = [aum |-> 0]
    /\ isLiveBotActive = TRUE
    /\ fetchesInFlight = 1
    /\ lastAccepted = NoSnapshot
    /\ sev = [kind |-> "mount", payload |-> NoPush, data |-> AbsentDoc,
              applied |-> FALSE, same |-> FALSE]
    /\ calls = <<>>
    /\ cev = NoCommand
    /\ PerformanceUnmounted

\* fetchData is called: by setInterval(fetchData, 10000) or by "Sync All"
FetchData(kind) ==
    /\ fetchesInFlight' = IssuePull(fetchesInFlight)
    /\ sev' = [kind |-> kind, payload |-> NoPush, data |-> AbsentDoc,
               applied |-> FALSE, same |-> FALSE]
    /\ UNCHANGED << strategies, totalStats, isLiveBotActive, lastAccepted,
                    tradingMode >>
    /\ NoCommandStep
    /\ UNCHANGED perfVars

PollTick == FetchData("interval")

HandleSync == FetchData("sync")

\* fetchData after its awaits: the response body is data
FetchResponse(data) ==
    /\ fetchesInFlight > 0
    /\ fetchesInFlight' = fetchesInFlight - 1
    /\ Accept(data)
    /\ sev' = StratEvent("pull", NoPush, data)
    /\ UNCHANGED tradingMode
    /\ NoCommandStep
    /\ UNCHANGED perfVars

\* fetchData's catch: the request or response.json() failed
FetchFails ==
    /\ fetchesInFlight > 0
    /\ fetchesInFlight' = fetchesInFlight - 1
    /\ sev' = [kind |-> "failed", payload |-> NoPush, data |-> AbsentDoc,
               applied |-> FALSE, same |-> FALSE]
    /\ UNCHANGED << strategies, totalStats, isLiveBotActive, lastAccepted,
                    tradingMode >>
    /\ NoCommandStep
    /\ UNCHANGED perfVars

\* socket 'stats_update' handler; reading rawUpdate.broadcast_mode of
\* undefined or null throws a TypeError
OnUpdate(rawUpdate) ==
    /\ IF ~rawUpdate.top.present
       THEN /\ sev' = [kind |-> "threw", payload |-> rawUpdate,
                       data |-> AbsentDoc, applied |-> FALSE, same |-> FALSE]
            /\ UNCHANGED << strategies, totalStats, isLiveBotActive,
                            lastAccepted >>
       ELSE /\ Accept(SelectedData(rawUpdate, tradingMode))
            /\ sev' = StratEvent("push", rawUpdate,
                                 SelectedData(rawUpdate, tradingMode))
    /\ UNCHANGED << fetchesInFlight, tradingMode >>
    /\ NoCommandStep
    /\ UNCHANGED perfVars

\* toggleStrategyStatus up to its await: POST /api/strategy/toggle
ToggleStrategyStatus(id, name, card) ==
    /\ Len(calls) < MaxCalls
    /\ calls' = Append(calls, [endpoint |-> "/api/strategy/toggle",
                               method |-> "POST",
                               body |-> ToggleBody(name)])
    /\ cev' = CommandEvent("toggle", card, 0)
    /\ sev' = [kind |-> "command", payload |-> NoPush, data |-> AbsentDoc,
               applied |-> FALSE, same |-> FALSE]
    /\ UNCHANGED << strategies, totalStats, isLiveBotActive, lastAccepted,
                    fetchesInFlight, tradingMode >>
    /\ UNCHANGED perfVars

\* the card's onToggleStatus: () => toggleStrategyStatus(strategy.id)
OnToggleStatus(i) ==
    ToggleStrategyStatus(i, NoArgument, strategies[i].name)

\* handleMasterToggle up to its await: GET /api/start or /api/stop
HandleMasterToggle ==
    /\ Len(calls) < MaxCalls
    /\ LET targetState == ~isLiveBotActive
       IN calls' = Append(calls,
                      [endpoint |-> IF targetState THEN "/api/start"
                                    ELSE "/api/stop",
                       method |-> "GET",
                       body |-> NoBody])
    /\ cev' = CommandEvent("master", "", 0)
    /\ sev' = [kind |-> "command", payload |-> NoPush, data |-> AbsentDoc,
               applied |-> FALSE, same |-> FALSE]
    /\ UNCHANGED << strategies, totalStats, isLiveBotActive, lastAccepted,
                    fetchesInFlight, tradingMode >>
    /\ UNCHANGED perfVars

\* a command's fetch settles: resolved, the handler calls fetchData();
\* rejected, its catch logs the error
CommandSettles(k, ok) ==
    /\ k \in 1..Len(calls)
    /\ calls' = RemoveAt(calls, k)
    /\ fetchesInFlight' = IF ok THEN IssuePull(fetchesInFlight)
                          ELSE fetchesInFlight
    /\ cev' = CommandEvent(IF ok THEN "resolved" ELSE "rejected", "",
                           IF ok THEN 1 ELSE 0)
    /\ sev' = [kind |-> "command", payload |-> NoPush, data |-> AbsentDoc,
               applied |-> FALSE, same |-> FALSE]
    /\ UNCHANGED << strategies, totalStats, isLiveBotActive, lastAccepted,
                    tradingMode >>
    /\ UNCHANGED perfVars

StratNext ==
    \/ PollTick
    \/ HandleSync
    \/ \E data \in StatsBodies : FetchResponse(data)
    \/ FetchFails
    \/ \E rawUpdate \in Pushes : OnUpdate(rawUpdate)
    \/ \E i \in 1..Len(strategies) : OnToggleStatus(i)
    \/ HandleMasterToggle
    \/ \E k \in 1..MaxCalls, ok \in BOOLEAN : CommandSettles(k, ok)

SpecStrategies == StratInit /\ [][StratNext]_vars

\* ------------------------------------------------------ specification ---
\* the Performance view is mounted, the Strategies view is not
Init == PerfInit /\ StrategiesUnmounted

Next ==
    \/ IntervalTick
    \/ PullFails
    \/ \E doc \in StatsDocs : PullResponse(doc)
    \/ OpenModal
    \/ Cancel
    \/ \E name \in Names, rawVal \in RawInputs : SetCapital(name, rawVal)
    \/ \E p \in DragOrders(modalStrategies) : Reorder(p)
    \/ Save
    \/ \E k \in 1..MaxCommitsInFlight, ok \in BOOLEAN : WriteSettles(k, ok)
    \/ Tick
    \/ TimerFires

Spec == Init /\ [][Next]_vars

\* The same view fed one response body and one typed capital, mounted in
\* Paper mode with nothing saved: the exit paths of an edit session.
FairInit == Init /\ tradingMode = "PAPER" /\ localStorage = <<>>

FairNext ==
    \/ IntervalTick
    \/ PullFails
    \/ PullResponse(DocBalanced)
    \/ OpenModal
    \/ Cancel
    \/ \E name \in Names : SetCapital(name, "3000")
    \/ Save
    \/ \E k \in 1..MaxCommitsInFlight, ok \in BOOLEAN : WriteSettles(k, ok)
    \/ Tick
    \/ TimerFires

\* The Performance view fed stats documents of up to six strategies, under
\* saved orders that name some, all or none of them: what the allocation
\* card displays.
DisplayDocs ==
    { [total_capital |-> Num(10000), hasStrategies |-> TRUE,
       strategies |-> <<Strat("A", 500), Strat("B", 5000), Strat("C", 1000),
                        Strat("D", 1500), Strat("E", 1200), Strat("F", 800)>>],
      [total_capital |-> Num(10000), hasStrategies |-> TRUE,
       strategies |-> <<Strat("F", 4000), Strat("E", 100), Strat("D", 100),
                        Strat("C", 2500), Strat("B", 2500), Strat("A", 800)>>],
      [total_capital |-> Num(1000), hasStrategies |-> TRUE,
       strategies |-> <<Strat("A", 50), Strat("B", 500)>>],
      [total_capital |-> Num(0), hasStrategies |-> TRUE,
       strategies |-> <<Strat("C", 300), Strat("A", 300), Strat("B", 700)>>] }

DisplayOrders ==
    { <<>>, <<"B", "A">>, <<"F">>, <<"Q", "C">>,
      <<"F", "E", "D", "C", "B", "A">> }

DisplayInit ==
    /\ tradingMode \in {"PAPER", "REAL"}
    /\ showEditModal = FALSE
    /\ isSaving = FALSE
    /\ allStrategies = <<>>
    /\ totalCapital = 0
    /\ liveEquity = 0
    /\ modalStrategies = <<>>
    /\ localStorage \in DisplayOrders
    /\ strategyOrder = localStorage
    /\ pullsInFlight = 1
    /\ commits = <<>>
    /\ timers = <<>>
    /\ sinceCommit = GraceDelay
    /\ opens = 0
    /\ edits = 0
    /\ ev = Event("mount", TRUE, FALSE)
    /\ StrategiesUnmounted
    /\ openIds = <<>>

DisplayNext ==
    \/ IntervalTick
    \/ PullFails
    \/ \E doc \in DisplayDocs : PullResponse(doc)

SpecDisplay == DisplayInit /\ [][DisplayNext]_vars

\* the Performance view with the larger documents and the edit session
\* opened and cancelled
OpenNext ==
    \/ DisplayNext
    \/ OpenModal
    \/ Cancel

SpecOpen == DisplayInit /\ [][OpenNext]_vars

\* the same, with sessions that are saved as they were opened
NoOpNext ==
    \/ OpenNext
    \/ Save
    \/ Tick
    \/ TimerFires

SpecNoOp == DisplayInit /\ [][NoOpNext]_vars

\* Scheduling the event loop guarantees: time passes, a due timer runs, an
\* awaited POST settles (resolves or rejects).  The operator is assumed to
\* leave an open modal eventually.
FairSpec ==
    /\ FairInit
    /\ [][FairNext]_vars
    /\ WF_vars(Tick)
    /\ WF_vars(TimerFires)
    /\ WF_vars(\E k \in 1..MaxCommitsInFlight, ok \in BOOLEAN : WriteSettles(k, ok))
    /\ WF_vars(Cancel)

\* FairSpec, and the interval timer keeps firing and a pull succeeds
\* whenever pulls keep being issued.
FairPullSpec ==
    /\ FairSpec
    /\ WF_vars(IntervalTick)
    /\ SF_vars(PullResponse(DocBalanced))

\* ------------------------------------------------------------- claims ---
\* the pause the edit session holds on the synchroniser
Paused == showEditModal \/ isSaving

Canonical == << allStrategies, totalCapital, liveEquity >>

\* C1 (as claimed): while the pause is held (modal open, commit in progress
\* or grace period), no pull response changes canonical strategies,
\* totalCapital or equity, also when the pull was issued before the session
\* opened.
C1_NoSyncWriteWhilePaused ==
    [][(Paused /\ ev'.kind = "pull") => Canonical' = Canonical]_vars

\* C2 (as claimed): a pull is issued only once the grace delay has elapsed
\* since the last completion of a commit, for any sequence of sessions.
C2_ResumeOnlyAfterGrace ==
    ev.issued => sinceCommit >= GraceDelay

\* C10: while the synchroniser is paused (modal open or isSaving), no pull
\* request is issued, neither by the interval tick nor by a re-run of the
\* sync effect.
C10_NoPullWhilePaused ==
    ev.issued => ~Paused

\* C10 witness: the interval fired, and the sync effect re-ran, while
\* paused, and no request was sent.
C10_Witness ==
    /\ ev.kind = "interval"
    /\ Paused
    /\ ~ev.issued
    /\ pullsInFlight = 0

\* a proposed capital that is non-numeric (empty), zero or negative
InvalidProposed(c) == c.typ # "number" \/ c.val <= 0

\* the stored capital of strategy `name` in the canonical list
StoredCapital(name) == FindByName(allStrategies, name).capital

\* C4 (as claimed): after a commit, every proposed entry with an empty,
\* zero or negative capital is stored with its pre-edit capital.
C4_InvalidFallsBack ==
    ev.kind = "saved" =>
        \A i \in 1..Len(ev.commit.upd) :
            LET s == ev.commit.upd[i]
            IN  (InvalidProposed(s.capital) /\ HasName(ev.commit.orig, s.name))
                => StoredCapital(s.name) =
                       FindByName(ev.commit.orig, s.name).capital

RECURSIVE SumPct(_)
SumPct(list) ==
    IF list = <<>> THEN Ratio(0, 1)
    ELSE AddRatio(SumPct(Front(list)), Last(list).pct)

\* C5 (as claimed): in Paper mode, after any commit in which at least one
\* entry has positive capital, the stored percentages sum to 100.
C5_PaperPercentSum ==
    ( /\ ev.kind = "saved"
      /\ tradingMode = "PAPER"
      /\ \E i \in 1..Len(allStrategies) :
             allStrategies[i].capital.typ = "number"
             /\ allStrategies[i].capital.val > 0 )
    => SumPct(allStrategies) = Ratio(100, 1)

RECURSIVE SumProposed(_)
SumProposed(upd) ==
    IF upd = <<>> THEN 0
    ELSE SumProposed(Front(upd)) + Last(upd).capital.val

AllValid(upd) == \A i \in 1..Len(upd) : ~InvalidProposed(upd[i].capital)

\* C6: in Paper mode, a commit in which every proposed capital is valid sets
\* totalCapital to the sum of the proposed capitals and every entry's
\* percent to 100 * capital / that sum.
C6_PaperAllValid ==
    (ev.kind = "saved" /\ tradingMode = "PAPER" /\ AllValid(ev.commit.upd))
    => /\ totalCapital = SumProposed(ev.commit.upd)
       /\ Len(allStrategies) = Len(ev.commit.upd)
       /\ \A i \in 1..Len(ev.commit.upd) :
              /\ allStrategies[i].name = ev.commit.upd[i].name
              /\ allStrategies[i].capital = ev.commit.upd[i].capital
              /\ allStrategies[i].pct.num * SumProposed(ev.commit.upd) =
                     100 * ev.commit.upd[i].capital.val * allStrategies[i].pct.den

\* C6 witness: capitals 3000 and 1000 committed in Paper mode give
\* totalCapital 4000 and percents 75 and 25.
C6_Witness ==
    /\ ev.kind = "saved"
    /\ tradingMode = "PAPER"
    /\ totalCapital = 4000
    /\ allStrategies =
          << [name |-> "X", capital |-> Num(3000), pct |-> [num |-> 75, den |-> 1]],
             [name |-> "Y", capital |-> Num(1000), pct |-> [num |-> 25, den |-> 1]] >>

\* number of set-allocation writes a saveOrder invocation issued for `name`
WritesFor(log, name) ==
    Cardinality({ i \in 1..Len(log) : log[i].name = name })

\* the proposed entry is valid and differs from the pre-edit capital
ChangedAndValid(s, orig) ==
    /\ ~InvalidProposed(s.capital)
    /\ HasName(orig, s.name)
    /\ FindByName(orig, s.name).capital # s.capital

\* C7: a commit issues a set-allocation write for exactly the entries whose
\* proposed capital is valid and differs from the pre-edit capital, once
\* each and with that capital; none for unchanged or invalid entries.  An
\* invocation still at an await has issued writes only for such entries.
C7_WritesExactlyChanged ==
    /\ ev.kind = "saved" =>
          \A i \in 1..Len(ev.commit.upd) :
              LET s == ev.commit.upd[i]
              IN  /\ WritesFor(ev.commit.log, s.name) =
                        IF ChangedAndValid(s, ev.commit.orig) THEN 1 ELSE 0
                  /\ \A w \in 1..Len(ev.commit.log) :
                        ev.commit.log[w].name = s.name
                        => ev.commit.log[w].capital = s.capital.val
    /\ \A k \in 1..Len(commits) :
          \A i \in 1..Len(commits[k].upd) :
              LET s == commits[k].upd[i]
              IN  WritesFor(commits[k].log, s.name) <=
                      IF ChangedAndValid(s, commits[k].orig) THEN 1 ELSE 0

\* C7 witness: a finished commit that wrote one changed valid entry and
\* skipped an entry whose changed capital is invalid.
C7_Witness ==
    /\ ev.kind = "saved"
    /\ Len(ev.commit.log) = 1
    /\ \E i \in 1..Len(ev.commit.upd) :
          /\ InvalidProposed(ev.commit.upd[i].capital)
          /\ FindByName(ev.commit.orig, ev.commit.upd[i].name).capital
                 # ev.commit.upd[i].capital

\* the pause is released
Released == ~showEditModal /\ ~isSaving

\* C3: every opened edit session is eventually followed by a state in which
\* the pause is released (showEditModal false and isSaving false), whether
\* it ends by cancel, by a commit, or by a commit whose writes fail.
C3_SessionReleasesPause == showEditModal ~> Released

\* C3 witness: a session was opened and committed with a changed capital,
\* and the grace timer has released the pause.
C3_Witness ==
    /\ Released
    /\ ev.kind = "timer"
    /\ opens > 0
    /\ \E i \in 1..Len(allStrategies) : allStrategies[i].capital = Num(3000)

\* the canonical state of the Strategies view
Snapshot ==
    [strategies |-> strategies, totalStats |-> totalStats,
     isLiveBotActive |-> isLiveBotActive]

\* C8 (as claimed): a payload (pull or push) whose normalized form equals
\* the last accepted snapshot produces no state-change callback.
C8_IdenticalPayloadIgnored ==
    (sev.kind \in {"pull", "push"} /\ sev.same) => ~sev.applied

\* the sub-payload of a DUAL payload for the client's current mode
CurrentSub(rawUpdate) ==
    IF tradingMode = "REAL" THEN rawUpdate.REAL ELSE rawUpdate.PAPER

\* C9: of a DUAL push, the sub-payload for the current mode is the one
\* applied, the PAPER one when the current mode's is absent, and the other
\* mode's never when the current mode's is present.
C9_DualSelectsCurrentMode ==
    (sev.kind = "push" /\ sev.payload.broadcast_mode = "DUAL") =>
        LET cur == CurrentSub(sev.payload)
            paper == sev.payload.PAPER
        IN  IF cur.present
            THEN /\ sev.applied = cur.hasStrategies
                 /\ sev.applied => Snapshot = Normalized(cur)
            ELSE /\ sev.applied = (paper.present /\ paper.hasStrategies)
                 /\ sev.applied => Snapshot = Normalized(paper)

\* C9 witness: in Real mode a DUAL push carrying both sub-payloads was
\* applied and the state is the REAL one; and one without a REAL
\* sub-payload was applied from PAPER.
C9_Witness ==
    /\ sev.kind = "push"
    /\ sev.payload.broadcast_mode = "DUAL"
    /\ tradingMode = "REAL"
    /\ sev.applied
    /\ \/ /\ sev.payload.REAL = RealDoc
          /\ sev.payload.PAPER = PaperDoc
          /\ Snapshot = Normalized(RealDoc)
          /\ Snapshot # Normalized(PaperDoc)
       \/ /\ sev.payload.REAL = AbsentDoc
          /\ Snapshot = Normalized(PaperDoc)

\* C11: cancelling an open session with no commit in progress or in grace
\* sends a pull request at once, whatever time has passed.
C11_CancelResumesAtOnce ==
    (ev.kind = "cancel" /\ ~isSaving /\ commits = <<>> /\ timers = <<>>)
    => (ev.issued /\ pullsInFlight > 0)

\* C11 witness: a session with an edit in it was cancelled and the pull was
\* sent in the same step.
C11_Witness ==
    /\ ev.kind = "cancel"
    /\ ~isSaving
    /\ commits = <<>>
    /\ timers = <<>>
    /\ edits > 0
    /\ ev.issued
    /\ pullsInFlight = 1

Committing == commits # <<>>

\* C13 (as claimed): the session moves only Closed -> Open -> Committing ->
\* Closed or Open -> Closed: no cancel and no open happens while a commit is
\* in progress, and at most one commit is in progress.
C13_SessionStateMachine ==
    /\ ev.kind = "cancel" => ~Committing
    /\ ev.kind = "open" => ~Committing
    /\ Len(commits) <= 1

\* the capital the claims give an entry after a commit: the proposed one
\* when valid, the pre-edit one otherwise
ReconciledCapital(s, orig) ==
    IF ~InvalidProposed(s.capital) THEN s.capital.val
    ELSE IF HasName(orig, s.name) /\ FindByName(orig, s.name).capital.typ = "number"
         THEN FindByName(orig, s.name).capital.val
         ELSE 0

RECURSIVE SumReconciled(_, _)
SumReconciled(upd, orig) ==
    IF upd = <<>> THEN 0
    ELSE SumReconciled(Front(upd), orig) + ReconciledCapital(Last(upd), orig)

\* every stored percent is 100 * stored capital / denominator
PercentsOver(list, denominator) ==
    \A i \in 1..Len(list) :
        list[i].pct.num * denominator =
            100 * list[i].capital.val * list[i].pct.den

\* the denominator C14 gives a Real-mode commit
RealDenominator(total, upd, orig) ==
    IF total # 0 THEN total ELSE SumReconciled(upd, orig)

\* C14: in Real mode a commit leaves totalCapital unchanged and computes
\* every percent over the reported totalCapital when that is non-zero, and
\* over the sum of the entries' capitals otherwise.
C14_RealDenominator ==
    [][(ev'.kind = "saved" /\ tradingMode = "REAL") =>
          LET d == RealDenominator(ev'.commit.total, ev'.commit.upd,
                                   ev'.commit.orig)
          IN  /\ totalCapital' = totalCapital
              /\ (d # 0 => PercentsOver(allStrategies', d))]_vars

\* C14 witness: a Real-mode commit of capitals 3000 and 1000 under a
\* reported totalCapital of 2000 stored percents 150 and 50.
C14_Witness ==
    /\ ev.kind = "saved"
    /\ tradingMode = "REAL"
    /\ ev.commit.total = 2000
    /\ totalCapital = 2000
    /\ \E i \in 1..Len(allStrategies) :
          /\ allStrategies[i].capital = Num(3000)
          /\ allStrategies[i].pct = [num |-> 150, den |-> 1]
    /\ \E i \in 1..Len(allStrategies) :
          /\ allStrategies[i].capital = Num(1000)
          /\ allStrategies[i].pct = [num |-> 50, den |-> 1]

\* C15: in Paper mode, after a commit with any mix of valid and invalid
\* proposed capitals, totalCapital is the sum over the entries of the
\* proposed capital when valid and of the pre-edit capital otherwise, and
\* every stored percent has that sum as its denominator.
C15_PaperTotalIsReconciledSum ==
    (ev.kind = "saved" /\ tradingMode = "PAPER") =>
        LET d == SumReconciled(ev.commit.upd, ev.commit.orig)
        IN  /\ totalCapital = d
            /\ (d # 0 => PercentsOver(allStrategies, d))

\* C15 witness: a Paper-mode commit with an invalid and a valid proposed
\* capital, whose total counts the pre-edit capital of the invalid one.
C15_Witness ==
    /\ ev.kind = "saved"
    /\ tradingMode = "PAPER"
    /\ \E i, j \in 1..Len(ev.commit.upd) :
          /\ InvalidProposed(ev.commit.upd[i].capital)
          /\ FindByName(ev.commit.orig, ev.commit.upd[i].name).capital = Num(1000)
          /\ ev.commit.upd[j].capital = Num(3000)
    /\ totalCapital = 4000

\* a write of the log was rejected
HasFailedWrite(log) == \E w \in 1..Len(log) : log[w].status = "failed"

\* C16: when a set-allocation write fails during a commit, every changed
\* valid entry still gets its write, once and with the proposed capital (no
\* write is skipped and none is undone by a second write), and the commit
\* completes: the session closes and the valid proposed capitals are stored.
C16_FailedWriteDoesNotStopCommit ==
    /\ (ev.kind = "saved" /\ HasFailedWrite(ev.commit.log)) =>
          /\ ~showEditModal
          /\ Len(allStrategies) = Len(ev.commit.upd)
          /\ \A i \in 1..Len(ev.commit.upd) :
                LET s == ev.commit.upd[i]
                IN  /\ ChangedAndValid(s, ev.commit.orig) =>
                          /\ WritesFor(ev.commit.log, s.name) = 1
                          /\ allStrategies[i].name = s.name
                          /\ allStrategies[i].capital = s.capital
                    /\ \A w \in 1..Len(ev.commit.log) :
                          ev.commit.log[w].name = s.name
                          => ev.commit.log[w].capital = s.capital.val
    /\ \A k \in 1..Len(commits) :
          /\ commits[k].log # <<>>
          /\ Last(commits[k].log).status = "pending"

\* C16 witness: a commit of two changed entries completed although its
\* first write was rejected; the second write was issued and settled.
C16_Witness ==
    /\ ev.kind = "saved"
    /\ Len(ev.commit.log) = 2
    /\ ev.commit.log[1].status = "failed"
    /\ ev.commit.log[2].status = "ok"
    /\ ~showEditModal

\* what the allocation card shows
Displayed == DisplayedAllocations(allStrategies, strategyOrder)

\* the strategy is named in the order
Ranked(s) == \E k \in 1..Len(strategyOrder) : strategyOrder[k] = s.name

\* first position of the strategy's name in the order
RankOf(s) ==
    CHOOSE k \in 1..Len(strategyOrder) :
        strategyOrder[k] = s.name /\ \A j \in 1..(k - 1) : strategyOrder[j] # s.name

\* a goes before b by PriorityOrder: a is named and b is not, or both are
\* and a's name comes first
GoesBefore(a, b) ==
    Ranked(a) /\ (Ranked(b) => RankOf(a) < RankOf(b))

\* C17: with a non-empty PriorityOrder the displayed list holds the first
\* five strategies by the order: named ones before unnamed ones, named ones
\* in the order's sequence, whatever their percentages.
C17_DisplayFollowsOrder ==
    strategyOrder # <<>> =>
        /\ Len(Displayed) =
              (IF Len(allStrategies) < 5 THEN Len(allStrategies) ELSE 5)
        /\ \A i \in 1..Len(Displayed) :
              \E k \in 1..Len(allStrategies) : allStrategies[k] = Displayed[i]
        /\ \A i, j \in 1..Len(Displayed) :
              i < j => ~GoesBefore(Displayed[j], Displayed[i])
        /\ \A k \in 1..Len(allStrategies) :
              (\A i \in 1..Len(Displayed) : Displayed[i] # allStrategies[k])
              => \A i \in 1..Len(Displayed) :
                     ~GoesBefore(allStrategies[k], Displayed[i])

\* C17 witness: order [B, A] with A at 5% and B at 50% shows B before A.
C17_Witness ==
    /\ strategyOrder = <<"B", "A">>
    /\ Len(allStrategies) = 2
    /\ Displayed[1].name = "B"
    /\ Displayed[1].pct = [num |-> 50, den |-> 1]
    /\ Displayed[2].name = "A"
    /\ Displayed[2].pct = [num |-> 5, den |-> 1]

\* C17 second case: six strategies under an order naming the smallest one
\* last in the list; it is shown first and one unnamed strategy is cut.
C17_CutReached ==
    /\ strategyOrder = <<"F">>
    /\ Len(allStrategies) = 6
    /\ Len(Displayed) = 5
    /\ Displayed[1].name = "F"
    /\ allStrategies[6].name = "F"

\* the step is a click on Save: saveOrder runs to its first await or, with
\* nothing to write, to its end
SaveClicked ==
    \/ ev'.kind = "save"
    \/ ev'.kind = "saved" /\ commits' = commits

\* C18: PriorityOrder changes only inside a commit, which sets the
\* in-memory and the persisted order to the names of the whole working list
\* in its order, entries with invalid capital included; no open, reorder,
\* setProposedCapital, cancel, pull response, timer or write completion
\* changes either.
C18_OrderChangesOnlyInCommit ==
    [][IF SaveClicked
       THEN /\ strategyOrder' = [i \in 1..Len(modalStrategies) |->
                                    modalStrategies[i].name]
            /\ localStorage' = strategyOrder'
       ELSE UNCHANGED << strategyOrder, localStorage >>]_vars

\* C18 witness: a commit of a working list in the order Y, X that holds an
\* invalid capital stored the whole list's order.
C18_Witness ==
    /\ ev.kind = "saved"
    /\ \E i \in 1..Len(ev.commit.upd) : InvalidProposed(ev.commit.upd[i].capital)
    /\ Len(ev.commit.upd) = 2
    /\ strategyOrder = <<"Y", "X">>
    /\ localStorage = <<"Y", "X">>
    /\ NamesOf(ev.commit.orig) = <<"X", "Y">>

\* C19: a failed pull request (rejected fetch or unparsable body) leaves
\* canonical state unchanged, and the interval goes on: the tick that
\* follows it sends a request again (in the Performance view unless the
\* synchroniser is paused).  Stated for the Performance and the Strategies
\* view.
C19_FailedPullIsSkipped ==
    [][/\ ev'.kind = "failed" =>
              UNCHANGED << allStrategies, totalCapital, liveEquity,
                           modalStrategies >>
       /\ (ev.kind = "failed" /\ ev'.kind = "interval" /\ ~Paused) =>
              (ev'.issued /\ pullsInFlight' = pullsInFlight + 1)
       /\ sev'.kind = "failed" =>
              UNCHANGED << strategies, totalStats, isLiveBotActive >>
       /\ (sev.kind = "failed" /\ sev'.kind = "interval") =>
              fetchesInFlight' = fetchesInFlight + 1]_vars

\* C19 witness: a pull failed while the Performance view held strategies
\* and was not paused; nothing is in flight and the next tick will pull.
C19_Witness ==
    /\ ev.kind = "failed"
    /\ allStrategies # <<>>
    /\ totalCapital > 0
    /\ ~Paused
    /\ pullsInFlight = 0

\* the payload lacks the required fields: it is empty, or the payload the
\* client is to read (itself, or for a DUAL envelope the current mode's
\* sub-payload, else the PAPER one) is absent or has no strategies list
LacksRequiredFields(rawUpdate) ==
    \/ ~rawUpdate.top.present
    \/ /\ rawUpdate.broadcast_mode # "DUAL"
       /\ ~rawUpdate.top.hasStrategies
    \/ /\ rawUpdate.broadcast_mode = "DUAL"
       /\ IF CurrentSub(rawUpdate).present
          THEN ~CurrentSub(rawUpdate).hasStrategies
          ELSE ~(rawUpdate.PAPER.present /\ rawUpdate.PAPER.hasStrategies)

\* C20 (as claimed): a push payload that lacks the required fields is
\* dropped: canonical state is unchanged and the handler raises no error.
C20_MalformedPushDropped ==
    [][(sev'.kind \in {"push", "threw"} /\ LacksRequiredFields(sev'.payload))
       => /\ UNCHANGED << strategies, totalStats, isLiveBotActive >>
          /\ sev'.kind # "threw"]_vars

\* C20 for payloads that are objects
C20_ObjectPayloads ==
    [][(sev'.kind = "push" /\ LacksRequiredFields(sev'.payload))
       => UNCHANGED << strategies, totalStats, isLiveBotActive >>]_vars

\* the payload a push hands to the client: itself, or for a DUAL envelope
\* the current mode's sub-payload, else the PAPER one
PushedData(rawUpdate) ==
    IF rawUpdate.broadcast_mode = "DUAL"
    THEN IF CurrentSub(rawUpdate).present
         THEN CurrentSub(rawUpdate) ELSE rawUpdate.PAPER
    ELSE rawUpdate.top

\* the payload the step delivered, by pull response or by push
Delivered(e) == IF e.kind = "push" THEN PushedData(e.payload) ELSE e.data

\* C21: after every pull response and every push event, in any
\* interleaving, the canonical state of the Strategies view is the
\* normalization of the most recently accepted well-formed payload: a
\* well-formed payload of either channel replaces it, and no other step
\* changes it.
C21_LastAcceptedWins ==
    [][IF /\ sev'.kind \in {"pull", "push"}
          /\ Delivered(sev').present
          /\ Delivered(sev').hasStrategies
       THEN /\ strategies' = MapStrategies(Delivered(sev'))
            /\ totalStats' = [aum |-> OrZero(Delivered(sev').total_capital)]
            /\ isLiveBotActive' = Delivered(sev').running
       ELSE UNCHANGED << strategies, totalStats, isLiveBotActive >>]_vars

\* C21 witness: a push was accepted and replaced the previous canonical
\* state while a pull is in flight.
C21_Witness ==
    /\ sev.kind = "push"
    /\ sev.applied
    /\ sev.payload.broadcast_mode = "NONE"
    /\ ~sev.same
    /\ lastAccepted = Normalized(TopDoc)
    /\ Snapshot = Normalized(TopDoc)
    /\ fetchesInFlight = 1

\* C22: each operator command (a card's toggle, the master toggle) issues
\* exactly one backend call and no pull of its own, and when that call
\* settles the handler triggers exactly one extra pull.
C22_CommandCallsOnceThenPulls ==
    [][/\ cev'.kind \in {"toggle", "master"}
          => /\ Len(calls') = Len(calls) + 1
             /\ cev'.pulls = 0
             /\ fetchesInFlight' = fetchesInFlight
       /\ cev'.kind \in {"resolved", "rejected"}
          => /\ Len(calls') = Len(calls) - 1
             /\ cev'.pulls = 1
             /\ fetchesInFlight' = IssuePull(fetchesInFlight)]_vars

\* C23: the call a toggle command issues goes to the toggle-strategy
\* endpoint with a body whose strategy field is the name of the strategy
\* whose card was clicked.
C23_ToggleBodyNamesStrategy ==
    cev.kind = "toggle"
        => /\ Last(calls).endpoint = "/api/strategy/toggle"
           /\ Last(calls).body = ToggleBody(Argument(cev.card))

\* a's percent is at least b's
PctAtLeast(a, b) == a.pct.num * b.pct.den >= b.pct.num * a.pct.den

\* C24: the working list built when an edit session opens holds the
\* snapshot's strategies ordered by PriorityOrder: named strategies first
\* in the order's sequence, the unnamed ones after them in descending
\* percent; with an empty PriorityOrder the whole list is in descending
\* percent.
C24_OpenBuildsWorkingList ==
    ev.kind = "open" =>
        /\ Len(modalStrategies) = Len(allStrategies)
        /\ \A k \in 1..Len(allStrategies) :
              \E i \in 1..Len(modalStrategies) :
                  modalStrategies[i] = allStrategies[k]
        /\ \A i, j \in 1..Len(modalStrategies) :
              i < j =>
                  /\ ~GoesBefore(modalStrategies[j], modalStrategies[i])
                  /\ (~Ranked(modalStrategies[i]) /\ ~Ranked(modalStrategies[j]))
                        => PctAtLeast(modalStrategies[i], modalStrategies[j])

\* the part of C24 about named strategies: the working list holds the
\* snapshot's strategies, named ones first and in the order's sequence
C24_NamedFirst ==
    ev.kind = "open" =>
        /\ Len(modalStrategies) = Len(allStrategies)
        /\ \A k \in 1..Len(allStrategies) :
              \E i \in 1..Len(modalStrategies) :
                  modalStrategies[i] = allStrategies[k]
        /\ \A i, j \in 1..Len(modalStrategies) :
              i < j => ~GoesBefore(modalStrategies[j], modalStrategies[i])

\* the value the operator entered: the empty sentinel, a number, or a
\* non-numeric value
Entered(rawVal) == IF rawVal = "" THEN EmptyString ELSE ParseFloat(rawVal)

\* the working copy's entry for name
WorkingEntry(list, name) == FindByName(list, name)

C25_NumbersAndEmptyRecorded ==
    [][\A name \in Names, rawVal \in RawInputs \ {"abc"} :
          SetCapital(name, rawVal) =>
              /\ WorkingEntry(modalStrategies', name).capital = Entered(rawVal)
              /\ \A other \in Names \ {name} :
                    HasName(modalStrategies, other) =>
                        WorkingEntry(modalStrategies', other)
                            = WorkingEntry(modalStrategies, other)
              /\ NamesOf(modalStrategies') = NamesOf(modalStrategies)
              /\ UNCHANGED << allStrategies, totalCapital >>]_vars

\* list b holds exactly the entries of list a, each once, in some order
IsPermutationOf(b, a) ==
    /\ Len(b) = Len(a)
    /\ \E q \in DragOrders(a) : \A i \in 1..Len(a) : b[i] = a[q[i]]

\* C26: a reorder changes only the order of the working list: the new
\* list is a permutation of the previous one, every entry keeps its
\* proposed capital, and canonical state and PriorityOrder are unchanged.
C26_ReorderOnlyPermutes ==
    [][(\E p \in DragOrders(modalStrategies) : Reorder(p)) =>
          /\ IsPermutationOf(modalStrategies', modalStrategies)
          /\ \A n \in Names :
                HasName(modalStrategies, n) =>
                    FindByName(modalStrategies', n).capital
                        = FindByName(modalStrategies, n).capital
          /\ UNCHANGED << allStrategies, totalCapital, liveEquity,
                          strategyOrder, localStorage >>]_vars

\* C26 witness: X was given 3000 and then dragged below Y; the working
\* list is [Y, X] with X still at 3000, and canonical state still has
\* [X, Y] at 1000 each.
C26_Witness ==
    /\ ev.kind = "reorder"
    /\ showEditModal
    /\ NamesOf(modalStrategies) = <<"Y", "X">>
    /\ modalStrategies[2].capital = Num(3000)
    /\ modalStrategies[1].capital = Num(1000)
    /\ NamesOf(allStrategies) = <<"X", "Y">>
    /\ allStrategies[1].capital = Num(1000)

\* a commit has completed with a rejected write and canonical state holds
\* the capital the backend did not store
OptimisticAfterFailedWrite ==
    /\ ev.kind = "saved"
    /\ HasFailedWrite(ev.commit.log)
    /\ allStrategies # MapStats(DocBalanced)

\* a pull response received after the grace delay has installed the
\* backend's strategies and total
ReplacedByBackend ==
    /\ ev.kind = "pull"
    /\ ev.applied
    /\ sinceCommit >= GraceDelay
    /\ allStrategies = MapStats(DocBalanced)
    /\ totalCapital = DocBalanced.total_capital.val

\* C27: after a commit whose allocation write failed, the optimistic local
\* value is eventually replaced: a pull succeeds after the grace delay, and
\* every successful pull overwrites canonical strategies and totalCapital
\* with the values of the response.
C27_OptimisticValueReplaced ==
    /\ OptimisticAfterFailedWrite ~> ReplacedByBackend
    /\ [][PullResponse(DocBalanced) =>
             /\ allStrategies' = MapStats(DocBalanced)
             /\ totalCapital' = DocBalanced.total_capital.val]_vars

\* C27 witness: X was committed at 3000, the write was rejected, and
\* canonical state shows X at 3000 while the backend still holds 1000.
C27_Witness ==
    /\ OptimisticAfterFailedWrite
    /\ ~showEditModal
    /\ \E i \in 1..Len(allStrategies) :
          /\ allStrategies[i].name = "X"
          /\ allStrategies[i].capital = Num(3000)
    /\ totalCapital = 4000

\* an edit session is Open: the modal is shown and no commit is running
SessionOpen == showEditModal /\ commits = <<>>

\* C28: while an edit session is Open the working copy changes only by the
\* operator's reorder and setProposedCapital: no pull response, interval
\* tick or timer changes it.
C28_OnlyOperatorChangesWorkingCopy ==
    [][(SessionOpen /\ SessionOpen' /\ modalStrategies' # modalStrategies)
          => ev'.kind \in {"reorder", "setCapital"}]_vars

\* the names of the list, each once: no name twice
EachOnce(names) ==
    \A i, j \in 1..Len(names) : names[i] = names[j] => i = j

\* the two lists hold the same names
SameIds(a, b) == {a[i] : i \in 1..Len(a)} = {b[i] : i \in 1..Len(b)}

\* C29: when a commit completes, canonical state holds exactly the
\* strategy ids it held when the commit's session opened, each once: none
\* is lost, added or duplicated.
C29_CommitPreservesIds ==
    ev.kind = "saved" =>
        /\ SameIds(NamesOf(allStrategies), ev.commit.opened)
        /\ Len(allStrategies) = Len(ev.commit.opened)
        /\ EachOnce(NamesOf(allStrategies))

\* the part of C29 about the commit itself: canonical state after the
\* commit holds exactly the ids of the working list the operator saved
\* and of canonical state at the Save click, each once
C29_CommitKeepsSavedIds ==
    ev.kind = "saved" =>
        /\ NamesOf(allStrategies) = NamesOf(ev.commit.upd)
        /\ SameIds(NamesOf(allStrategies), NamesOf(ev.commit.orig))
        /\ Len(allStrategies) = Len(ev.commit.orig)
        /\ EachOnce(NamesOf(allStrategies))

\* the Save click of a session in which the operator changed nothing: no
\* reorder and no capital input since the view mounted, and the working
\* copy is the list the open built from canonical state
NoOpSave ==
    /\ Save
    /\ edits = 0
    /\ modalStrategies = ModalSorted(allStrategies, strategyOrder)

\* every strategy of list a has the same capital and percent in list b
SameEntries(a, b) ==
    /\ Len(a) = Len(b)
    /\ \A i \in 1..Len(a) :
          /\ HasName(b, a[i].name)
          /\ FindByName(b, a[i].name) = a[i]

\* C30: committing a session with no reorder and no capital change leaves
\* the displayed top allocations (membership and order), every strategy's
\* capital and percent, and totalCapital as they were, also when
\* PriorityOrder was empty.
C30_NoOpEditIsIdempotent ==
    [][NoOpSave =>
          /\ Displayed' = Displayed
          /\ SameEntries(allStrategies, allStrategies')
          /\ totalCapital' = totalCapital]_vars

\* the part of C30 that holds: when the percents are those of a non-zero
\* totalCapital, in Real mode, and in Paper mode when totalCapital is the
\* sum of the capitals, every strategy's capital and percent and
\* totalCapital are as they were
C30_UnchangedWhenTotalIsSum ==
    [][(/\ NoOpSave
        /\ totalCapital # 0
        /\ PercentsOver(allStrategies, totalCapital)
        /\ \/ tradingMode = "REAL"
           \/ totalCapital = SumOfCapitals(modalStrategies, allStrategies))
          => /\ SameEntries(allStrategies, allStrategies')
             /\ totalCapital' = totalCapital]_vars

\* the display part of C30 alone: the same names in the same order
C30_NoOpKeepsDisplay ==
    [][NoOpSave => NamesOf(Displayed') = NamesOf(Displayed)]_vars
====
